---- MODULE Spec2Model ----
(***************************************************************************)
(* Model of compile.py: the build driver that, for the desktop toolchain   *)
(* and then for every Android architecture, compiles every source on a     *)
(* thread pool, archives the objects found on disk and links two           *)
(* executables, while a daemon thread prints the messages of a shared      *)
(* queue.                                                                  *)
(*                                                                         *)
(* The external tools are opaque: each invocation ends with an exit code   *)
(* drawn from ExitCodes.  A compiler that exits 0 has written its object.  *)
(* The objects that an earlier run left in a target's object directory     *)
(* are an input of the run; the script reads them in one place only, the   *)
(* os.path.exists filter before the archive, and the model draws them      *)
(* there (stale).  The bookkeeping of the invocations (compileInv,         *)
(* arCalls, arRc, linkCalls, linkRc) is kept for the target being built    *)
(* and starts empty with every target.  Every queue entry carries, next to *)
(* its line, the thread that put it; the output of log_worker is kept as   *)
(* the lines printed for each of these threads, in the order printed.      *)
(* A message is written as the parts of its f-string and a line is the     *)
(* string these parts concatenate to.                                      *)
(***************************************************************************)
EXTENDS Integers, Sequences, FiniteSets, TLC

\* Number of entries of the source list (PYCXX_FILES + PYTHON_VERSION_FILES)
\* that the model builds.
NumSources == 2

\* Number of log() calls of the client of the log channel.
MaxLogCalls == 2

Sources == 1..NumSources

\* desktop build first, then ARCHITECTURES.items() in insertion order
Targets == <<"desktop", "armv7", "aarch64">>

NumTargets == Len(Targets)

\* the two executables, in the order of the compile_executable calls
Products == <<"pycdas", "pycdc">>

\* exit codes of an external process: success and failure
ExitCodes == {0, 1}

\* OBJ_DIR for the desktop, os.path.join(ANDROID_OBJ_DIR, subdir) for an architecture
ObjDir(t) == IF t = "desktop" THEN "obj" ELSE "android_obj" \o "/" \o t

\* a source path, kept as its directory prefix, its stem and its extension
Cpp(dir, stem) == [dir |-> dir, stem |-> stem, ext |-> ".cpp"]

\* the path string of a source
SourcePath(f) == f.dir \o f.stem \o f.ext

PYCXX_FILES ==
    << Cpp("", "bytecode"), Cpp("", "data"), Cpp("", "pyc_code"), Cpp("", "pyc_module"),
       Cpp("", "pyc_numeric"), Cpp("", "pyc_object"), Cpp("", "pyc_sequence"),
       Cpp("", "pyc_string") >>

\* f"bytes/python_{major}_{minor}.cpp" for major in range(1, 4) for minor in range(0, 14)
PYTHON_VERSION_FILES ==
    [k \in 1..(3 * 14) |->
        Cpp("bytes/", "python_" \o ToString(1 + ((k - 1) \div 14)) \o "_"
                                \o ToString((k - 1) % 14))]

\* PYCXX_FILES + PYTHON_VERSION_FILES
SOURCE_FILES == PYCXX_FILES \o PYTHON_VERSION_FILES

\* the NumSources consecutive entries of the source list that the model
\* builds: the last file of PYCXX_FILES and the version files that follow it
Built == SubSeq(SOURCE_FILES, Len(PYCXX_FILES), Len(PYCXX_FILES) + NumSources - 1)

\* the source paths of the sources that are built
SourcePaths == [i \in Sources |-> SourcePath(Built[i])]

\* source path of the i-th source that is built
SrcName(i) == SourcePaths[i]

\* a name made from the directory of the source instead of its base name
ObjName_fromDirectory(f) == f.dir \o ".o"

\* os.path.splitext(os.path.basename(src))[0] + ".o"
ObjName(f) == f.stem \o ".o"

\* os.path.join(obj_dir, splitext(basename(src))[0] + ".o"), for every target
\* and every source that is built
ObjPaths ==
    [t \in {Targets[k] : k \in 1..NumTargets} |->
        [i \in Sources |-> ObjDir(t) \o "/" \o ObjName(Built[i])]]

\* the object path of the i-th source that is built, for target t
ObjPath(t, i) == ObjPaths[t][i]

\* os.path.join(obj_dir, "libpycxx.a")
Library(t) == ObjDir(t) \o "/" \o "libpycxx.a"

\* the level tags of log(); an unknown level maps to the empty string
levels(level) ==
    CASE level = "INFO" -> "[INFO]"
      [] level = "WARNING" -> "[WARNING]"
      [] level = "ERROR" -> "[ERROR]"
      [] OTHER -> ""

\* the string an f-string evaluates to: its parts, concatenated
RECURSIVE Join(_)
Join(parts) == IF parts = <<>> THEN "" ELSE Head(parts) \o Join(Tail(parts))

\* a line that is the message alone, without the level tag and the space
LogLine_noPrefix(message, level) == Join(message)

\* the string log() puts on the queue: f"{tag} {message}", where message is
\* given as the parts of the f-string of the caller
LogLine(message, level) == levels(level) \o " " \o Join(message)

\* the shutdown sentinel
STOP == "STOP"

\* the threads that put lines on the queue: the main thread and, for every
\* target, the pool task of every source
MainThread == <<"main">>
TaskThread(t, i) == <<t, SrcName(i)>>
Producers ==
    {MainThread} \cup {TaskThread(Targets[k], i) : k \in 1..NumTargets, i \in Sources}

VARIABLES
    pc,            \* position of the main thread
    cur,           \* index in Targets of the target being built
    srcExists,     \* srcExists[i]: the i-th source exists on disk
    objDirFiles,   \* object paths written by this run in the object directory of the current target
    task,          \* task[i]: state of the compile task of source i in the current pool
    object_files,  \* the object list of the current target
    ri,            \* index of the future the main thread waits for
    exc,           \* the exception propagating in the main thread, <<>> if none
    li,            \* index in Products of the link in progress
    log_queue,     \* the log queue: entries [line, by]
    sent,          \* sent[p]: the log() calls of thread p so far, as [message, level, line]
    printed,     \* printed[p]: the lines of thread p that log_worker has printed
    consumer,      \* log thread: "unstarted", "running", "stopped" (saw STOP), "killed"
    nStop,         \* number of sentinels put on the queue
    exitStatus,    \* exit status of the process, -1 while it runs
    tstate,        \* tstate[t]: pipeline state of target t
    compileInv,    \* compileInv[i]: compiler invocations for source i, current target
    arCalls,       \* object lists handed to the archiver, current target
    arRc,          \* exit code of the archiver, current target, -1 if none yet
    linkCalls,     \* products for which the linker was invoked, current target
    linkRc         \* linkRc[p]: exit code of the link of product index p, -1 if none yet

vars == <<pc, cur, srcExists, objDirFiles, task, object_files, ri, exc, li,
          log_queue, sent, printed, consumer, nStop, exitStatus, tstate,
          compileInv, arCalls, arRc, linkCalls, linkRc>>

mainVars == <<pc, cur, ri, exc, li>>
recVars == <<compileInv, arCalls, arRc, linkCalls, linkRc>>

T == Targets[cur]

\* a call log(message, level) and the line it puts on the queue
Call(message, level) ==
    [message |-> message, level |-> level, line |-> LogLine(message, level)]

\* log(message, level), called by thread by
log(by, message, level) ==
    /\ log_queue' = Append(log_queue, [line |-> Call(message, level).line, by |-> by])
    /\ sent' = [sent EXCEPT ![by] = Append(@, Call(message, level))]

NoTask == [i \in Sources |-> "none"]
NoInv == [i \in Sources |-> 0]
NoLinkRc == [p \in 1..Len(Products) |-> -1]

Init ==
    /\ pc = "start"
    /\ cur = 1
    /\ srcExists \in [Sources -> BOOLEAN]
    /\ objDirFiles = {}
    /\ task = NoTask
    /\ object_files = <<>>
    /\ ri = 1
    /\ exc = <<>>
    /\ li = 1
    /\ log_queue = <<>>
    /\ sent = [p \in Producers |-> <<>>]
    /\ printed = [p \in Producers |-> <<>>]
    /\ consumer = "unstarted"
    /\ nStop = 0
    /\ exitStatus = -1
    /\ tstate = [t \in 1..NumTargets |-> "Pending"]
    /\ compileInv = NoInv
    /\ arCalls = <<>>
    /\ arRc = -1
    /\ linkCalls = <<>>
    /\ linkRc = NoLinkRc

----------------------------------------------------------------------------
(* The log thread *)

\* log_thread = Thread(target=log_worker, daemon=True); log_thread.start()
StartLogThread ==
    /\ pc = "start"
    /\ consumer' = "running"
    /\ pc' = "begin"
    /\ UNCHANGED <<cur, srcExists, objDirFiles, task, object_files, ri, exc, li,
                   log_queue, sent, printed, nStop, exitStatus, tstate>>
    /\ UNCHANGED recVars

\* a log thread that takes the newest entry of the queue instead of the oldest
log_worker_lifo ==
    /\ consumer = "running"
    /\ log_queue /= <<>>
    /\ log_queue' = SubSeq(log_queue, 1, Len(log_queue) - 1)
    /\ LET message == log_queue[Len(log_queue)] IN
         IF message.line = STOP
            THEN consumer' = "stopped" /\ UNCHANGED printed
            ELSE /\ printed' = [printed EXCEPT ![message.by] = Append(@, message.line)]
                 /\ UNCHANGED consumer
    /\ UNCHANGED <<srcExists, objDirFiles, task, object_files, sent, nStop, exitStatus,
                   tstate>>
    /\ UNCHANGED mainVars
    /\ UNCHANGED recVars

\* one iteration of the loop of log_worker
log_worker ==
    /\ consumer = "running"
    /\ log_queue /= <<>>
    /\ log_queue' = Tail(log_queue)
    /\ LET message == Head(log_queue) IN
         IF message.line = STOP
            THEN consumer' = "stopped" /\ UNCHANGED printed
            ELSE /\ printed' = [printed EXCEPT ![message.by] = Append(@, message.line)]
                 /\ UNCHANGED consumer
    /\ UNCHANGED <<srcExists, objDirFiles, task, object_files, sent, nStop, exitStatus,
                   tstate>>
    /\ UNCHANGED mainVars
    /\ UNCHANGED recVars

----------------------------------------------------------------------------
(* The compile stage of one target *)

\* the log call that opens a target, the makedirs calls and the empty object list
BeginTarget ==
    /\ pc = "begin"
    /\ IF T = "desktop"
          THEN log(MainThread, <<"Starting desktop build...">>, "INFO")
          ELSE log(MainThread, <<"Building for Android ", T, "...\n">>, "INFO")
    /\ object_files' = <<>>
    /\ tstate' = [tstate EXCEPT ![cur] = "Compiling"]
    /\ pc' = "submit"
    /\ UNCHANGED <<cur, srcExists, objDirFiles, task, ri, exc, li, printed, consumer,
                   nStop, exitStatus>>
    /\ UNCHANGED recVars

\* a submit loop that puts each object path at the front of the object list
Submit_prepends ==
    /\ pc = "submit"
    /\ LET i == Len(object_files) + 1 IN
         /\ task' = [task EXCEPT ![i] = "queued"]
         /\ object_files' = <<ObjPath(T, i)>> \o object_files
         /\ IF i = NumSources
               THEN pc' = "collect" /\ ri' = 1
               ELSE UNCHANGED <<pc, ri>>
    /\ UNCHANGED <<cur, srcExists, objDirFiles, exc, li, log_queue, sent, printed, consumer,
                   nStop, exitStatus, tstate>>
    /\ UNCHANGED recVars

\* one iteration of the submit loop: executor.submit and object_files.append
Submit ==
    /\ pc = "submit"
    /\ LET i == Len(object_files) + 1 IN
         /\ task' = [task EXCEPT ![i] = "queued"]
         /\ object_files' = Append(object_files, ObjPath(T, i))
         /\ IF i = NumSources
               THEN pc' = "collect" /\ ri' = 1
               ELSE UNCHANGED <<pc, ri>>
    /\ UNCHANGED <<cur, srcExists, objDirFiles, exc, li, log_queue, sent, printed, consumer,
                   nStop, exitStatus, tstate>>
    /\ UNCHANGED recVars

\* compile_source without the existence test
compile_source_noExistsTest(i) ==
    /\ task[i] = "queued"
    /\ log(TaskThread(T, i), <<"Compiling ", SrcName(i), "...">>, "INFO")
    /\ compileInv' = [compileInv EXCEPT ![i] = @ + 1]
    /\ task' = [task EXCEPT ![i] = "running"]
    /\ UNCHANGED <<srcExists, objDirFiles, object_files, printed, consumer, nStop,
                   exitStatus, tstate, arCalls, arRc, linkCalls, linkRc>>
    /\ UNCHANGED mainVars

\* compile_source up to the start of the compiler: the existence test, the
\* WARNING and return for a missing source, the INFO and subprocess.run otherwise
compile_source(i) ==
    /\ task[i] = "queued"
    /\ IF ~srcExists[i]
          THEN /\ log(TaskThread(T, i), <<"Skipping missing file: ", SrcName(i)>>, "WARNING")
               /\ task' = [task EXCEPT ![i] = "done"]
               /\ UNCHANGED compileInv
          ELSE /\ log(TaskThread(T, i), <<"Compiling ", SrcName(i), "...">>, "INFO")
               /\ compileInv' = [compileInv EXCEPT ![i] = @ + 1]
               /\ task' = [task EXCEPT ![i] = "running"]
    /\ UNCHANGED <<srcExists, objDirFiles, object_files, printed, consumer, nStop,
                   exitStatus, tstate, arCalls, arRc, linkCalls, linkRc>>
    /\ UNCHANGED mainVars

\* the compiler of source i exits with rc: the return-code test of compile_source,
\* with the ERROR and the RuntimeError stored in the future
CompilerExit(i, rc) ==
    /\ task[i] = "running"
    /\ IF rc = 0
          THEN /\ objDirFiles' = objDirFiles \cup {ObjPath(T, i)}
               /\ task' = [task EXCEPT ![i] = "done"]
               /\ UNCHANGED <<log_queue, sent>>
          ELSE /\ log(TaskThread(T, i), <<"Failed to compile ", SrcName(i)>>, "ERROR")
               /\ task' = [task EXCEPT ![i] = "raised"]
               /\ UNCHANGED objDirFiles
    /\ UNCHANGED <<srcExists, object_files, printed, consumer, nStop, exitStatus, tstate>>
    /\ UNCHANGED mainVars
    /\ UNCHANGED recVars

\* a future is finished once its task returned or raised
FutureDone(i) == task[i] \in {"done", "raised"}

\* a result loop over the futures in the order they finish
\* (concurrent.futures.as_completed) instead of the order of submission
FutureResult_asCompleted ==
    /\ pc = "collect"
    /\ IF \E j \in Sources : task[j] = "raised"
          THEN /\ \E j \in Sources :
                     /\ task[j] = "raised"
                     /\ exc' = <<"Failed to compile ", SrcName(j)>>
               /\ pc' = "shutdown"
               /\ UNCHANGED ri
          ELSE /\ FutureDone(ri)
               /\ IF ri = NumSources
                     THEN pc' = "shutdown" /\ UNCHANGED ri
                     ELSE ri' = ri + 1 /\ UNCHANGED pc
               /\ UNCHANGED exc
    /\ UNCHANGED <<cur, li, srcExists, objDirFiles, task, object_files, log_queue,
                   sent, printed, consumer, nStop, exitStatus, tstate>>
    /\ UNCHANGED recVars

\* the result loop without the re-raise: waits for the future, drops its exception
FutureResult_dropsException ==
    /\ pc = "collect"
    /\ task[ri] \in {"done", "raised"}
    /\ IF ri = NumSources
          THEN pc' = "shutdown" /\ UNCHANGED ri
          ELSE ri' = ri + 1 /\ UNCHANGED pc
    /\ UNCHANGED <<cur, li, exc, srcExists, objDirFiles, task, object_files, log_queue,
                   sent, printed, consumer, nStop, exitStatus, tstate>>
    /\ UNCHANGED <<compileInv, arCalls, arRc, linkCalls, linkRc>>

\* one iteration of the result loop: future.result() blocks until the task is
\* finished and re-raises its exception, which leaves the loop
FutureResult ==
    /\ pc = "collect"
    /\ FutureDone(ri)
    /\ IF task[ri] = "raised"
          THEN /\ exc' = <<"Failed to compile ", SrcName(ri)>>
               /\ pc' = "shutdown"
               /\ UNCHANGED ri
          ELSE /\ IF ri = NumSources
                     THEN pc' = "shutdown" /\ UNCHANGED ri
                     ELSE ri' = ri + 1 /\ UNCHANGED pc
               /\ UNCHANGED exc
    /\ UNCHANGED <<cur, li, srcExists, objDirFiles, task, object_files, log_queue,
                   sent, printed, consumer, nStop, exitStatus, tstate>>
    /\ UNCHANGED recVars

\* leaving the with block without waiting when an exception is pending
ExitWith_noWaitOnError ==
    /\ pc = "shutdown"
    /\ exc = <<>> => \A i \in Sources : FutureDone(i)
    /\ IF exc = <<>>
          THEN /\ pc' = "archive"
               /\ tstate' = [tstate EXCEPT ![cur] = "Archiving"]
          ELSE /\ pc' = "abort"
               /\ tstate' = [tstate EXCEPT ![cur] = "Failed"]
    /\ UNCHANGED <<cur, ri, exc, li, srcExists, objDirFiles, task, object_files,
                   log_queue, sent, printed, consumer, nStop, exitStatus>>
    /\ UNCHANGED recVars

\* leaving the with block: executor.shutdown(wait=True) returns when every
\* submitted task is finished; a pending exception then leaves the stage
ExitWith ==
    /\ pc = "shutdown"
    /\ \A i \in Sources : FutureDone(i)
    /\ IF exc = <<>>
          THEN /\ pc' = "archive"
               /\ tstate' = [tstate EXCEPT ![cur] = "Archiving"]
          ELSE /\ pc' = "abort"
               /\ tstate' = [tstate EXCEPT ![cur] = "Failed"]
    /\ UNCHANGED <<cur, ri, exc, li, srcExists, objDirFiles, task, object_files,
                   log_queue, sent, printed, consumer, nStop, exitStatus>>
    /\ UNCHANGED recVars

----------------------------------------------------------------------------
(* Archive and link *)

\* [obj for obj in object_files if os.path.exists(obj)], where the files of
\* the directory are those of the earlier run and those written by this one
ExistingObjects(stale) ==
    SelectSeq(object_files, LAMBDA o : o \in objDirFiles \cup stale)

\* create_archive called inside the with block, before the result loop
create_archive_beforeJoin(stale) ==
    /\ pc = "collect"
    /\ log(MainThread, <<"Creating archive...">>, "INFO")
    /\ arCalls' = Append(arCalls, ExistingObjects(stale))
    /\ pc' = "ar_run"
    /\ UNCHANGED <<cur, ri, exc, li, srcExists, objDirFiles, task, object_files,
                   printed, consumer, nStop, exitStatus, tstate,
                   compileInv, arRc, linkCalls, linkRc>>

\* create_archive up to the start of the archiver
create_archive(stale) ==
    /\ pc = "archive"
    /\ log(MainThread, <<"Creating archive...">>, "INFO")
    /\ arCalls' = Append(arCalls, ExistingObjects(stale))
    /\ pc' = "ar_run"
    /\ UNCHANGED <<cur, ri, exc, li, srcExists, objDirFiles, task, object_files,
                   printed, consumer, nStop, exitStatus, tstate,
                   compileInv, arRc, linkCalls, linkRc>>

\* create_archive without the return-code test
ArchiverExit_ignoresRc(rc) ==
    /\ pc = "ar_run"
    /\ arRc' = rc
    /\ pc' = "link"
    /\ li' = 1
    /\ tstate' = [tstate EXCEPT ![cur] = "Linking"]
    /\ UNCHANGED <<cur, ri, exc, srcExists, objDirFiles, task, object_files, log_queue,
                   sent, printed, consumer, nStop, exitStatus,
                   compileInv, arCalls, linkCalls, linkRc>>

\* create_archive with a retry: after a non-zero exit the archiver is run again
ArchiverExit_retries(rc) ==
    /\ pc = "ar_run"
    /\ arRc' = rc
    /\ IF rc = 0
          THEN /\ pc' = "link"
               /\ li' = 1
               /\ tstate' = [tstate EXCEPT ![cur] = "Linking"]
               /\ UNCHANGED <<log_queue, sent>>
          ELSE /\ log(MainThread, <<"Failed to create archive">>, "ERROR")
               /\ pc' = "archive"
               /\ UNCHANGED <<li, tstate>>
    /\ UNCHANGED <<cur, ri, exc, srcExists, objDirFiles, task, object_files,
                   printed, consumer, nStop, exitStatus,
                   compileInv, arCalls, linkCalls, linkRc>>

\* the archiver exits with rc: the return-code test of create_archive
ArchiverExit(rc) ==
    /\ pc = "ar_run"
    /\ arRc' = rc
    /\ IF rc = 0
          THEN /\ pc' = "link"
               /\ li' = 1
               /\ tstate' = [tstate EXCEPT ![cur] = "Linking"]
               /\ UNCHANGED <<log_queue, sent, exc>>
          ELSE /\ log(MainThread, <<"Failed to create archive">>, "ERROR")
               /\ exc' = <<"Failed to create archive">>
               /\ pc' = "abort"
               /\ tstate' = [tstate EXCEPT ![cur] = "Failed"]
               /\ UNCHANGED li
    /\ UNCHANGED <<cur, ri, srcExists, objDirFiles, task, object_files,
                   printed, consumer, nStop, exitStatus,
                   compileInv, arCalls, linkCalls, linkRc>>

\* compile_executable up to the start of the linker, for product li
compile_executable ==
    /\ pc = "link"
    /\ log(MainThread, <<"Linking ", Products[li], "...">>, "INFO")
    /\ linkCalls' = Append(linkCalls, Products[li])
    /\ pc' = "link_run"
    /\ UNCHANGED <<cur, ri, exc, li, srcExists, objDirFiles, task, object_files,
                   printed, consumer, nStop, exitStatus, tstate,
                   compileInv, arCalls, arRc, linkRc>>

\* compile_executable without the raise: the failure is logged, the caller goes on
LinkerExit_noRaise(rc) ==
    /\ pc = "link_run"
    /\ linkRc' = [linkRc EXCEPT ![li] = rc]
    /\ IF rc = 0
          THEN UNCHANGED <<log_queue, sent>>
          ELSE log(MainThread, <<"Failed to link ", Products[li]>>, "ERROR")
    /\ IF li < Len(Products)
          THEN li' = li + 1 /\ pc' = "link" /\ UNCHANGED tstate
          ELSE /\ pc' = "complete"
               /\ tstate' = [tstate EXCEPT ![cur] = "Done"]
               /\ UNCHANGED li
    /\ UNCHANGED <<cur, ri, exc, srcExists, objDirFiles, task, object_files,
                   printed, consumer, nStop, exitStatus,
                   compileInv, arCalls, arRc, linkCalls>>

\* the linker exits with rc: the return-code test of compile_executable
LinkerExit(rc) ==
    /\ pc = "link_run"
    /\ linkRc' = [linkRc EXCEPT ![li] = rc]
    /\ IF rc = 0
          THEN /\ IF li < Len(Products)
                     THEN li' = li + 1 /\ pc' = "link" /\ UNCHANGED tstate
                     ELSE /\ pc' = "complete"
                          /\ tstate' = [tstate EXCEPT ![cur] = "Done"]
                          /\ UNCHANGED li
               /\ UNCHANGED <<log_queue, sent, exc>>
          ELSE /\ log(MainThread, <<"Failed to link ", Products[li]>>, "ERROR")
               /\ exc' = <<"Failed to link ", Products[li]>>
               /\ pc' = "abort"
               /\ tstate' = [tstate EXCEPT ![cur] = "Failed"]
               /\ UNCHANGED li
    /\ UNCHANGED <<cur, ri, srcExists, objDirFiles, task, object_files,
                   printed, consumer, nStop, exitStatus,
                   compileInv, arCalls, arRc, linkCalls>>

----------------------------------------------------------------------------
(* The driver *)

\* the end of a target: the closing log call of the desktop build, then the
\* next architecture of the loop with the bookkeeping of its invocations
\* empty, or the end of the loop
NextTarget ==
    /\ pc = "complete"
    /\ IF T = "desktop"
          THEN log(MainThread, <<"Desktop build complete.\n">>, "INFO")
          ELSE UNCHANGED <<log_queue, sent>>
    /\ IF cur < NumTargets
          THEN /\ cur' = cur + 1
               /\ pc' = "begin"
               /\ objDirFiles' = {}
               /\ task' = NoTask
               /\ compileInv' = NoInv
               /\ arCalls' = <<>>
               /\ arRc' = -1
               /\ linkCalls' = <<>>
               /\ linkRc' = NoLinkRc
          ELSE /\ pc' = "stop"
               /\ UNCHANGED <<cur, objDirFiles, task>>
               /\ UNCHANGED recVars
    /\ UNCHANGED <<ri, exc, li, srcExists, object_files,
                   printed, consumer, nStop, exitStatus, tstate>>

\* a driver that joins the log thread without putting the sentinel
PutStop_noSentinel ==
    /\ pc = "stop"
    /\ pc' = "join"
    /\ UNCHANGED <<cur, ri, exc, li, srcExists, objDirFiles, task, object_files,
                   log_queue, sent, printed, consumer, nStop, exitStatus, tstate>>
    /\ UNCHANGED recVars

\* log_queue.put("STOP")
PutStop ==
    /\ pc = "stop"
    /\ log_queue' = Append(log_queue, [line |-> STOP, by |-> MainThread])
    /\ nStop' = nStop + 1
    /\ pc' = "join"
    /\ UNCHANGED <<cur, ri, exc, li, srcExists, objDirFiles, task, object_files,
                   sent, printed, consumer, exitStatus, tstate>>
    /\ UNCHANGED recVars

\* log_thread.join() returns when log_worker has returned; the script ends
\* and the interpreter exits with status 0
JoinAndExit ==
    /\ pc = "join"
    /\ consumer = "stopped"
    /\ pc' = "exited"
    /\ exitStatus' = 0
    /\ UNCHANGED <<cur, ri, exc, li, srcExists, objDirFiles, task, object_files,
                   log_queue, sent, printed, consumer, nStop, tstate>>
    /\ UNCHANGED recVars

\* a driver that catches the RuntimeError of a target and goes on with the next
UncaughtExit_nextTarget ==
    /\ pc = "abort"
    /\ IF cur < NumTargets
          THEN /\ cur' = cur + 1
               /\ pc' = "begin"
               /\ objDirFiles' = {}
               /\ task' = NoTask
               /\ compileInv' = NoInv
               /\ arCalls' = <<>>
               /\ arRc' = -1
               /\ linkCalls' = <<>>
               /\ linkRc' = NoLinkRc
          ELSE /\ pc' = "stop"
               /\ UNCHANGED <<cur, objDirFiles, task>>
               /\ UNCHANGED recVars
    /\ exc' = <<>>
    /\ UNCHANGED <<ri, li, srcExists, object_files,
                   log_queue, sent, printed, consumer, nStop, exitStatus, tstate>>

\* an interpreter that ends with status 0 on the uncaught RuntimeError
UncaughtExit_statusZero ==
    /\ pc = "abort"
    /\ pc' = "exited"
    /\ exitStatus' = 0
    /\ consumer' = IF consumer = "running" THEN "killed" ELSE consumer
    /\ UNCHANGED <<cur, ri, exc, li, srcExists, objDirFiles, task, object_files,
                   log_queue, sent, printed, nStop, tstate>>
    /\ UNCHANGED recVars

\* no statement of the script catches the RuntimeError: it leaves the module,
\* the interpreter exits with status 1 and the daemon log thread dies with it
UncaughtExit ==
    /\ pc = "abort"
    /\ pc' = "exited"
    /\ exitStatus' = 1
    /\ consumer' = IF consumer = "running" THEN "killed" ELSE consumer
    /\ UNCHANGED <<cur, ri, exc, li, srcExists, objDirFiles, task, object_files,
                   log_queue, sent, printed, nStop, tstate>>
    /\ UNCHANGED recVars

Next ==
    \/ StartLogThread
    \/ log_worker
    \/ BeginTarget
    \/ Submit
    \/ \E i \in Sources : compile_source(i)
    \/ \E i \in Sources, rc \in ExitCodes : CompilerExit(i, rc)
    \/ FutureResult
    \/ ExitWith
    \/ \E stale \in SUBSET {ObjPath(T, i) : i \in Sources} : create_archive(stale)
    \/ \E rc \in ExitCodes : ArchiverExit(rc)
    \/ compile_executable
    \/ \E rc \in ExitCodes : LinkerExit(rc)
    \/ NextTarget
    \/ PutStop
    \/ JoinAndExit
    \/ UncaughtExit

Spec == Init /\ [][Next]_vars

\* The runs in which every external process exits with code 0.  Every thread
\* that can take a step eventually takes one and every external process
\* terminates: the run does not stop while a step is possible.
NextAllExitZero ==
    \/ StartLogThread
    \/ log_worker
    \/ BeginTarget
    \/ Submit
    \/ \E i \in Sources : compile_source(i)
    \/ \E i \in Sources : CompilerExit(i, 0)
    \/ FutureResult
    \/ ExitWith
    \/ \E stale \in SUBSET {ObjPath(T, i) : i \in Sources} : create_archive(stale)
    \/ ArchiverExit(0)
    \/ compile_executable
    \/ LinkerExit(0)
    \/ NextTarget
    \/ PutStop
    \/ JoinAndExit

SpecAllExitZero == Init /\ [][NextAllExitZero]_vars /\ WF_vars(NextAllExitZero)

\* A client of the log channel that calls log() with any message and any
\* level: the main thread starts the log thread, calls log() up to MaxLogCalls
\* times with texts and levels drawn from MessageTexts and Levels, among them
\* the text of the sentinel and a level that is not in the table of log(),
\* then puts the sentinel and joins the log thread.
MessageTexts == { <<"STOP">>, <<"S", "TOP">>, <<>>, <<"TOP">> }
Levels == {"INFO", "ERROR", "S", ""}

\* log(message, level) called by the main thread
CallLog(message, level) ==
    /\ pc = "begin"
    /\ Len(sent[MainThread]) < MaxLogCalls
    /\ log(MainThread, message, level)
    /\ UNCHANGED <<srcExists, objDirFiles, task, object_files, printed, consumer, nStop,
                   exitStatus, tstate>>
    /\ UNCHANGED mainVars
    /\ UNCHANGED recVars

\* the client has made its last log() call and goes on to the shutdown
LastCallMade ==
    /\ pc = "begin"
    /\ pc' = "stop"
    /\ UNCHANGED <<cur, ri, exc, li, srcExists, objDirFiles, task, object_files,
                   log_queue, sent, printed, consumer, nStop, exitStatus, tstate>>
    /\ UNCHANGED recVars

NextLogClient ==
    \/ StartLogThread
    \/ \E message \in MessageTexts, level \in Levels : CallLog(message, level)
    \/ LastCallMade
    \/ PutStop
    \/ log_worker
    \/ JoinAndExit

SpecLogClient == Init /\ [][NextLogClient]_vars

----------------------------------------------------------------------------
(* Properties *)

\* the lines thread p has put on the queue so far, in the order it put them
Enqueued(p) ==
    LET mine == SelectSeq(log_queue, LAMBDA e : e.by = p)
    IN  printed[p] \o [k \in 1..Len(mine) |-> mine[k].line]

\* C1: in a target where the compiler exited non-zero for a source that exists,
\* the archiver is never invoked and neither link command is invoked
C1_FailedCompileBlocksArchiveAndLink ==
    (\E i \in Sources : srcExists[i] /\ compileInv[i] > 0 /\ task[i] = "raised")
        => (arCalls = <<>> /\ linkCalls = <<>>)

\* a run that ended after one source failed to compile and another compiled
C1_Witness ==
    /\ pc = "exited"
    /\ \E i, j \in Sources :
          /\ srcExists[i] /\ task[i] = "raised"
          /\ srcExists[j] /\ task[j] = "done" /\ compileInv[j] = 1

\* C2: join barrier: once the archiver of a target has been invoked, every
\* compile task of the target has been submitted and has finished
C2_JoinBarrier ==
    arCalls /= <<>> =>
        /\ Len(object_files) = NumSources
        /\ \A i \in Sources : task[i] \notin {"none", "queued", "running"}

\* the archiver runs for a target all of whose sources were compiled
C2_Witness ==
    /\ pc = "ar_run"
    /\ Len(arCalls) = 1
    /\ \A i \in Sources : compileInv[i] = 1 /\ task[i] = "done"

\* C3: a link command is invoked only after the archiver of the target has
\* exited with code 0; after a non-zero exit of the archiver no link is invoked
C3_LinkOnlyAfterArchiveOk ==
    /\ linkCalls /= <<>> => (Len(arCalls) = 1 /\ arRc = 0)
    /\ arRc \notin {-1, 0} => linkCalls = <<>>

\* the archiver of the second target failed and the run is over
C3_Witness ==
    /\ pc = "exited"
    /\ cur = 2
    /\ arRc = 1
    /\ tstate[1] = "Done"

C6_LogShutdownOnEveryRun ==
    pc = "exited" =>
        /\ nStop = 1
        /\ consumer = "stopped"
        /\ log_queue = <<>>

\* C7: every object handed to the archiver belongs to a source that existed and
\* whose compiler exited 0 in this run
C7_ArchiveInputProducedInThisRun ==
    \A k \in 1..Len(arCalls) :
        \A n \in 1..Len(arCalls[k]) :
            \E i \in Sources :
                /\ arCalls[k][n] = ObjPath(T, i)
                /\ srcExists[i]
                /\ compileInv[i] = 1
                /\ task[i] = "done"

\* C8: for a source that does not exist no compiler is invoked, its task ends
\* without raising after exactly one line, a WARNING, its object path is in the
\* object list at the position of the source, and a compile stage that fails
\* has an existing source whose task raised
C8_MissingSourceSkipped ==
    /\ \A i \in Sources :
          ~srcExists[i] =>
              /\ compileInv[i] = 0
              /\ task[i] \in {"none", "queued", "done"}
              /\ task[i] = "done" =>
                    /\ Enqueued(TaskThread(T, i)) =
                          << LogLine(<<"Skipping missing file: ", SrcName(i)>>, "WARNING") >>
                    /\ Len(object_files) >= i
                    /\ object_files[i] = ObjPath(T, i)
    /\ (tstate[cur] = "Failed" /\ arCalls = <<>>) =>
          \E j \in Sources : srcExists[j] /\ task[j] = "raised"

\* a target is Done although one of its sources was missing and skipped
C8_Witness ==
    /\ tstate[cur] = "Done"
    /\ \E i, j \in Sources :
          /\ ~srcExists[i] /\ task[i] = "done"
          /\ srcExists[j] /\ task[j] = "done"

\* C9: the run exits non-zero if a target reached Failed, and it exits zero
\* only if every configured target reached Done
C9_ExitStatus ==
    pc = "exited" =>
        /\ exitStatus \in {0, 1}
        /\ (\E t \in 1..NumTargets : tstate[t] = "Failed") => exitStatus /= 0
        /\ exitStatus = 0 => \A t \in 1..NumTargets : tstate[t] = "Done"

\* the run exited non-zero after the last target Failed, the others being Done
C9_Witness ==
    /\ pc = "exited"
    /\ exitStatus = 1
    /\ tstate[NumTargets] = "Failed"
    /\ \A t \in 1..(NumTargets - 1) : tstate[t] = "Done"

\* C10: when the archiver is invoked with an empty object list, the main
\* thread has put a WARNING or ERROR line that signals it
C10_EmptyArchiveSignalled ==
    (pc = "ar_run" /\ arCalls = << <<>> >>) =>
        \E n \in 1..Len(sent[MainThread]) :
            sent[MainThread][n].level \in {"WARNING", "ERROR"}

\* the lines of the log() calls of thread p, in the order of the calls
Formatted(p) == [k \in 1..Len(sent[p]) |-> sent[p][k].line]

\* s is the beginning of t
IsPrefix(s, t) == Len(s) <= Len(t) /\ \A k \in 1..Len(s) : s[k] = t[k]

\* what log_worker has printed is, for every thread, the first lines of that
\* thread in the order of its log() calls; once log_worker has taken the
\* sentinel the queue is empty and every line of every log() call is printed
Delivered ==
    /\ \A p \in Producers : IsPrefix(printed[p], Formatted(p))
    /\ consumer = "stopped" =>
          /\ log_queue = <<>>
          /\ \A p \in Producers : Len(printed[p]) = Len(sent[p])

\* C11: log channel delivery: after every step of log_worker the lines printed
\* for each producer are the first lines of its log() calls in the order of
\* the calls (per-producer FIFO), all lines of all producers are printed when
\* the sentinel is dequeued (N*M for N producers of M calls each), and after
\* the sentinel log_worker takes nothing from the queue and prints nothing
C11_LogChannelDelivery ==
    [][ /\ (printed' /= printed \/ consumer' /= consumer) => Delivered'
        /\ consumer = "stopped" => UNCHANGED <<log_queue, printed, consumer>> ]_vars

\* the sentinel was taken after the main thread and the pool task of every
\* source of every target had put their lines, the main thread several
C11_Witness ==
    /\ consumer = "stopped"
    /\ nStop = 1
    /\ Len(printed[MainThread]) > NumTargets
    /\ \A k \in 1..NumTargets, i \in Sources :
          Len(printed[TaskThread(Targets[k], i)]) = 1

\* the ERROR calls among the log() calls of thread p
Errors(p) == SelectSeq(sent[p], LAMBDA c : c.level = "ERROR")

\* the parts of message c are its f-string parts: c names x when x is one of them
Names(c, x) == \E n \in 1..Len(c.message) : c.message[n] = x

\* C12: every non-zero exit of a compiler, of the archiver or of a linker
\* has produced exactly one ERROR call that names the offending source,
\* archive or target, or product; the call is made before the error is raised;
\* and a target is Failed only after such a non-zero exit, never after a WARNING
C12_FatalErrorNamesOffender ==
    /\ \A i \in Sources :
          task[i] = "raised" =>
              /\ Len(Errors(TaskThread(T, i))) = 1
              /\ Names(Errors(TaskThread(T, i))[1], SrcName(i))
    /\ arRc \notin {-1, 0} =>
          /\ Len(Errors(MainThread)) = 1
          /\ \/ Names(Errors(MainThread)[1], Library(T))
             \/ Names(Errors(MainThread)[1], T)
    /\ \A p \in 1..Len(Products) :
          linkRc[p] \notin {-1, 0} =>
              /\ Len(Errors(MainThread)) = 1
              /\ Names(Errors(MainThread)[1], Products[p])
    /\ exc /= <<>> =>
          \E q \in Producers : \E n \in 1..Len(sent[q]) :
              sent[q][n].level = "ERROR" /\ Join(sent[q][n].message) = Join(exc)
    /\ tstate[cur] = "Failed" =>
          \/ \E i \in Sources : task[i] = "raised" /\ compileInv[i] = 1
          \/ arRc \notin {-1, 0}
          \/ \E p \in 1..Len(Products) : linkRc[p] \notin {-1, 0}

\* C13: the object list of a target has, at position i, the object path derived
\* from the i-th source, and once the submit loop is over it is as long as the
\* source list, whatever the order in which the tasks start and finish
C13_ObjectListOrder ==
    pc \notin {"start", "begin"} =>
        /\ \A n \in 1..Len(object_files) : object_files[n] = ObjPath(T, n)
        /\ pc /= "submit" => Len(object_files) = NumSources

\* the task of the last source has finished while that of the first has not started
C13_Witness ==
    /\ pc = "collect"
    /\ Len(object_files) = NumSources
    /\ task[NumSources] = "done"
    /\ task[1] = "queued"
    /\ compileInv[NumSources] = 1

\* C15: when the error of a failed compile task leaves the compile stage, every
\* task submitted for the target has finished, those not started at the time of
\* the failure included: the compiler was run once for every existing source,
\* every missing one was skipped, and the archiver is not invoked
C15_NoSiblingCancelled ==
    (pc \in {"abort", "exited"} /\ \E i \in Sources : task[i] = "raised") =>
        /\ Len(object_files) = NumSources
        /\ \A j \in Sources :
              /\ FutureDone(j)
              /\ srcExists[j] => compileInv[j] = 1
        /\ arCalls = <<>>
        /\ tstate[cur] = "Failed"

\* the main thread holds the error of a failed task and waits in the exit of
\* the with block while a sibling task has not started yet
C15_Witness ==
    /\ pc = "shutdown"
    /\ exc /= <<>>
    /\ \E j \in Sources : srcExists[j] /\ task[j] = "queued"

\* C19: the error that leaves the compile stage is that of the failed source
\* that comes first in the source list: it names the source of the future the
\* result loop stopped at, and every source before it compiled or was skipped
C19_FirstFailureInListOrder ==
    (exc /= <<>> /\ exc[1] = "Failed to compile ") =>
        /\ task[ri] = "raised"
        /\ exc = <<"Failed to compile ", SrcName(ri)>>
        /\ \A j \in Sources : j < ri => task[j] = "done"

\* two sources failed, the ERROR line of the later one was put on the queue
\* first, and the error that left the stage names the earlier one
C19_Witness ==
    /\ pc = "abort"
    /\ exc = <<"Failed to compile ", SrcName(1)>>
    /\ \E a, b \in 1..Len(log_queue) :
          /\ a < b
          /\ log_queue[a].line = LogLine(<<"Failed to compile ", SrcName(2)>>, "ERROR")
          /\ log_queue[b].line = LogLine(<<"Failed to compile ", SrcName(1)>>, "ERROR")

\* the moves of the state of one target
TargetStep(a, b) ==
    \/ a = b
    \/ <<a, b>> \in { <<"Pending", "Compiling">>, <<"Compiling", "Archiving">>,
                      <<"Archiving", "Linking">>, <<"Linking", "Done">>,
                      <<"Compiling", "Failed">>, <<"Archiving", "Failed">>,
                      <<"Linking", "Failed">> }

\* C16: the state of every target moves only along Pending -> Compiling ->
\* Archiving -> Linking -> Done or from Compiling, Archiving or Linking to
\* Failed, and never leaves Done or Failed; the driver never goes back to an
\* earlier target; and for a target the compiler is invoked at most once per
\* source, the archiver at most once and the linker at most once per product
C16_OneDirectionalNoRetry ==
    [][ /\ \A t \in 1..NumTargets : TargetStep(tstate[t], tstate'[t])
        /\ cur' >= cur
        /\ \A i \in Sources : compileInv'[i] <= 1
        /\ Len(arCalls') <= 1
        /\ \A a, b \in 1..Len(linkCalls') : a /= b => linkCalls'[a] /= linkCalls'[b] ]_vars

\* the run is over: the first target is Done, the second link of the second
\* target exited non-zero after every command of the target was invoked once
C16_Witness ==
    /\ pc = "exited"
    /\ tstate[1] = "Done"
    /\ tstate[2] = "Failed"
    /\ linkCalls = Products
    /\ linkRc[Len(Products)] = 1
    /\ Len(arCalls) = 1
    /\ \A i \in Sources : compileInv[i] = 1

\* an external process of the target being built is running
ProcessRunning ==
    \/ \E i \in Sources : task[i] = "running"
    \/ pc \in {"ar_run", "link_run"}

\* C17: the targets are built one after another in the order desktop, armv7,
\* aarch64: a target is started only when every target before it is Done, the
\* driver moves to the next target only from a Done target with no process
\* running, and only the target being built can have a process running
C17_TargetsSequential ==
    [][ /\ Targets = <<"desktop", "armv7", "aarch64">>
        /\ \A t, u \in 1..NumTargets :
              (tstate'[t] /= "Pending" /\ u < t) => tstate'[u] = "Done"
        /\ cur' /= cur =>
              /\ cur' = cur + 1
              /\ tstate[cur] = "Done"
              /\ ~ProcessRunning
              /\ \A i \in Sources : FutureDone(i)
        /\ ProcessRunning' =>
              /\ tstate'[cur'] \in {"Compiling", "Archiving", "Linking"}
              /\ \A t \in 1..NumTargets : t /= cur' => tstate'[t] \in {"Pending", "Done"} ]_vars

\* the linker of the last target is running, every target before it is Done
C17_Witness ==
    /\ pc = "link_run"
    /\ cur = NumTargets
    /\ \A t \in 1..(NumTargets - 1) : tstate[t] = "Done"

\* the object names derived from the configured source list are pairwise distinct
ObjectNamesDistinct ==
    \A i, j \in 1..Len(SOURCE_FILES) :
        i /= j => ObjName(SOURCE_FILES[i]) /= ObjName(SOURCE_FILES[j])

\* C20: the object names derived from PYCXX_FILES + PYTHON_VERSION_FILES are
\* pairwise distinct, the object directories of different targets are
\* distinct, and two compile tasks that run at the same time write different
\* object paths
C20_ObjectPathsDisjoint ==
    /\ ObjectNamesDistinct
    /\ \A a, b \in 1..NumTargets : a /= b => ObjDir(Targets[a]) /= ObjDir(Targets[b])
    /\ \A i, j \in Sources :
          (i /= j /\ task[i] = "running" /\ task[j] = "running")
              => ObjPath(T, i) /= ObjPath(T, j)

\* the compilers of all sources of an Android target run at the same time
C20_Witness ==
    /\ pc = "collect"
    /\ cur > 1
    /\ \A i \in Sources : task[i] = "running"

\* the log() calls of the task of source i of target t: one WARNING if the
\* source is missing, one INFO if it exists
TaskCalls(t, i) ==
    IF srcExists[i]
       THEN << Call(<<"Compiling ", SrcName(i), "...">>, "INFO") >>
       ELSE << Call(<<"Skipping missing file: ", SrcName(i)>>, "WARNING") >>

\* the target being built is Done with the compiler run once for every
\* existing source and never for a missing one, the archiver run once, both
\* executables linked, one WARNING per missing source and no ERROR
DoneAsExpected ==
    tstate[cur] = "Done" =>
        /\ \A i \in Sources :
              /\ compileInv[i] = (IF srcExists[i] THEN 1 ELSE 0)
              /\ sent[TaskThread(T, i)] = TaskCalls(T, i)
        /\ Len(arCalls) = 1 /\ arRc = 0
        /\ linkCalls = Products
        /\ \A p \in 1..Len(Products) : linkRc[p] = 0
        /\ \A q \in Producers : Errors(q) = <<>>

\* the run has ended with status 0, every target Done, the sentinel consumed,
\* every line printed, one WARNING per target and missing source, no ERROR
EndedWell ==
    /\ pc = "exited"
    /\ exitStatus = 0
    /\ \A t \in 1..NumTargets : tstate[t] = "Done"
    /\ consumer = "stopped" /\ nStop = 1 /\ log_queue = <<>>
    /\ \A k \in 1..NumTargets, i \in Sources :
          sent[TaskThread(Targets[k], i)] = TaskCalls(Targets[k], i)
    /\ \A q \in Producers : Errors(q) = <<>> /\ printed[q] = Formatted(q)

\* C14: when every external process exits with code 0, then for every subset
\* of missing sources every target becomes Done with the archiver invoked
\* once, both executables linked, one WARNING per missing source and no
\* ERROR, and the run eventually ends with the sentinel consumed and status 0
C14_AllExitZeroRunCompletes == []DoneAsExpected /\ <>EndedWell

\* a run has ended with status 0 with one source missing and another compiled
C14_Witness ==
    /\ EndedWell
    /\ \E i, j \in Sources : ~srcExists[i] /\ srcExists[j]

\* C18: no line that log() puts on the queue equals the sentinel, whatever the
\* message text and the level: the only entry of the queue that equals the
\* sentinel is the one put by the shutdown, and log_worker has stopped only
\* after that one was put and every line of every log() call was printed
C18_NoLogLineIsSentinel ==
    /\ \A n \in 1..Len(sent[MainThread]) : Formatted(MainThread)[n] /= STOP
    /\ \A k \in 1..Len(log_queue) :
          log_queue[k].line = STOP => (nStop = 1 /\ k = Len(log_queue))
    /\ consumer = "stopped" =>
          /\ nStop = 1
          /\ pc \in {"join", "exited"}
          /\ printed[MainThread] = Formatted(MainThread)

\* log_worker has stopped after printing the lines of a call with the text of
\* the sentinel and a level that is not in the table, and of a call whose
\* f-string parts join to the text of the sentinel
C18_Witness ==
    /\ consumer = "stopped"
    /\ Len(printed[MainThread]) = MaxLogCalls
    /\ \E n \in 1..Len(sent[MainThread]) :
          sent[MainThread][n].message = <<"STOP">> /\ sent[MainThread][n].level = ""
    /\ \E n \in 1..Len(sent[MainThread]) :
          sent[MainThread][n].message = <<"S", "TOP">>

TypeOK ==
    /\ pc \in {"start", "begin", "submit", "collect", "shutdown", "archive", "ar_run",
               "link", "link_run", "complete", "stop", "join", "abort", "exited"}
    /\ cur \in 1..NumTargets
    /\ consumer \in {"unstarted", "running", "stopped", "killed"}
    /\ exitStatus \in {-1, 0, 1}
    /\ \A i \in Sources : task[i] \in {"none", "queued", "running", "done", "raised"}
====
